---------------------------- MODULE Spec2Model ----------------------------
(***************************************************************************)
(* tuoy: a terminal table of active buoy stations.                         *)
(*                                                                         *)
(* The model covers src/src/main.rs: the StatefulTable cursor (next,       *)
(* previous), the input pump thread (poll / read / send) and the render    *)
(* loop of main (draw, recv, dispatch, quit).                              *)
(*                                                                         *)
(* Four specifications are given:                                          *)
(*   SpecParse  xml_to_stations and to_row applied to bounded documents;   *)
(*   SpecTable  the StatefulTable alone, driven by arbitrary sequences of  *)
(*              next() / previous() calls;                                 *)
(*   Spec       the running program: terminal, input pump, channel and     *)
(*              render loop;                                               *)
(*   SpecLive   the running program with the main thread scheduled fairly. *)
(***************************************************************************)
EXTENDS Integers, Sequences, FiniteSets, TLC

(***************************************************************************)
(* Bounds of the model.                                                    *)
(***************************************************************************)
\* rows of the table: 0 .. MaxRows
MaxRows == 3
\* direct next()/previous() calls explored by SpecTable
MaxCalls == 5
\* terminal events delivered in one run of Spec
MaxEvents == 3
\* width of usize in the model (the target's is 64)
UsizeBits == 4
\* terminal events delivered in one run of SpecLive
MaxLiveEvents == 2
\* elements in a document explored by SpecParse
MaxElements == 2
\* attributes a station element of SpecParse may lack
MaxMissing == 1

UsizeModulus == 2 ^ UsizeBits

VARIABLES
    body,           \* the response body: whether it is well-formed XML, and its
                    \* elements in document order (the first one is the root)
    parsePc,        \* main before the terminal setup: "parse" | "rows" | "done"
    stations,       \* active_stations: the ActiveStation records
    items,          \* StatefulTable.items: the rows
    selected,       \* StatefulTable.state.selected(): None or Some(i)
    overflowChecks, \* build profile: TRUE = overflow checks on (debug)
    callLog,        \* history: the next()/previous() calls made, in order
    selLog,         \* history: the cursor before the first call and after each call
    termQ,          \* terminal events waiting to be read by crossterm
    delivered,      \* history: number of terminal events delivered so far
    readLog,        \* history: the events event::read() returned to the pump
    pumpPc,         \* input pump thread: "unspawned" | "poll" | "read1" | "read2" |
                    \* "panicked"
    sent,           \* history: every message passed to tx.send, in order
    nRecv,          \* number of messages rx.recv() has returned
    actLog,         \* history: what the dispatch did with each received message
    renderPc,       \* main thread: "start" (before the loop) | "draw" | "recv" | "exit"
    result,         \* how main ended: "none" | "Ok" | "Err" | "Panic"
    draws,          \* number of terminal.draw calls completed
    term,           \* terminal modes: raw, alternate screen, mouse capture, cursor
    recvLog,        \* history: the messages rx.recv() returned, in order
    lastDrawn,      \* history: <<>> before the first draw, then <<cursor shown by the last draw>>
    polls,          \* history: number of event::poll calls that returned true
    errAt           \* history: the call whose Err the ? operator returned from main:
                    \* "none" | "draw" | "recv" | "disable_raw_mode" | "execute" |
                    \* "show_cursor"

tableVars == <<items, selected, overflowChecks, callLog, selLog>>
pumpVars == <<termQ, delivered, readLog, pumpPc, sent>>
renderVars == <<nRecv, actLog, renderPc, result, draws, term>>
parseVars == <<body, parsePc, stations>>
obsVars == <<recvLog, lastDrawn, polls, errAt>>
vars == <<body, parsePc, stations,
          items, selected, overflowChecks, callLog, selLog,
          termQ, delivered, readLog, pumpPc, sent,
          nRecv, actLog, renderPc, result, draws, term,
          recvLog, lastDrawn, polls, errAt>>

(***************************************************************************)
(* Option<usize> as a sequence of length at most one.                      *)
(***************************************************************************)
None == <<>>
Some(i) == <<i>>

(***************************************************************************)
(* usize subtraction a - b.  With overflow checks (debug profile) an       *)
(* underflow panics; without them (release profile) it wraps.              *)
(***************************************************************************)
SubUsize(a, b, checks) ==
    IF a >= b THEN [panic |-> FALSE, val |-> a - b]
    ELSE IF checks THEN [panic |-> TRUE, val |-> 0]
    ELSE [panic |-> FALSE, val |-> (a - b + UsizeModulus) % UsizeModulus]

(***************************************************************************)
(* StatefulTable::next: the new selection, or a panic.                     *)
(***************************************************************************)
next_wrapAtLen(its, sel, checks) ==
    IF sel = None THEN [panic |-> FALSE, sel |-> Some(0)]
    ELSE LET i == sel[1] IN
         [panic |-> FALSE, sel |-> Some(IF i >= Len(its) THEN 0 ELSE i + 1)]

next_fromNoneLast(its, sel, checks) ==
    IF sel = None
    THEN [panic |-> FALSE, sel |-> Some(IF Len(its) > 0 THEN Len(its) - 1 ELSE 0)]
    ELSE LET i == sel[1]
             d == SubUsize(Len(its), 1, checks)
         IN  IF d.panic THEN [panic |-> TRUE, sel |-> sel]
             ELSE [panic |-> FALSE, sel |-> Some(IF i >= d.val THEN 0 ELSE i + 1)]

next(its, sel, checks) ==
    IF sel = None THEN [panic |-> FALSE, sel |-> Some(0)]
    ELSE LET i == sel[1]
             d == SubUsize(Len(its), 1, checks)
         IN  IF d.panic THEN [panic |-> TRUE, sel |-> sel]
             ELSE [panic |-> FALSE, sel |-> Some(IF i >= d.val THEN 0 ELSE i + 1)]

(***************************************************************************)
(* StatefulTable::previous: the new selection, or a panic.                 *)
(***************************************************************************)
previous_wrapToZero(its, sel, checks) ==
    IF sel = None THEN [panic |-> FALSE, sel |-> Some(0)]
    ELSE LET i == sel[1] IN
         [panic |-> FALSE, sel |-> Some(IF i = 0 THEN 0 ELSE i - 1)]

previous_wrapOffByOne(its, sel, checks) ==
    IF sel = None THEN [panic |-> FALSE, sel |-> Some(0)]
    ELSE LET i == sel[1] IN
         IF i = 0
         THEN LET d == SubUsize(Len(its), 2, checks) IN
              IF d.panic THEN [panic |-> FALSE, sel |-> Some(0)]
              ELSE [panic |-> FALSE, sel |-> Some(d.val)]
         ELSE [panic |-> FALSE, sel |-> Some(i - 1)]

previous_deselectsAtTop(its, sel, checks) ==
    IF sel = None THEN [panic |-> FALSE, sel |-> Some(0)]
    ELSE LET i == sel[1] IN
         IF i = 0
         THEN [panic |-> FALSE, sel |-> None]
         ELSE [panic |-> FALSE, sel |-> Some(i - 1)]

previous(its, sel, checks) ==
    IF sel = None THEN [panic |-> FALSE, sel |-> Some(0)]
    ELSE LET i == sel[1] IN
         IF i = 0
         THEN LET d == SubUsize(Len(its), 1, checks) IN
              IF d.panic THEN [panic |-> TRUE, sel |-> sel]
              ELSE [panic |-> FALSE, sel |-> Some(d.val)]
         ELSE [panic |-> FALSE, sel |-> Some(i - 1)]

(***************************************************************************)
(* The rows handed to StatefulTable::new: one row of ten text fields per   *)
(* station, in document order.                                             *)
(***************************************************************************)
SampleRows ==
    <<  <<"41001", "EAST HATTERAS", "34.7", "-72.3", "NDBC", "buoy", "y", "n", "n", "n">>,
        <<"41002", "SOUTH HATTERAS", "31.8", "-74.9", "NDBC", "buoy", "n", "y", "n", "n">>,
        <<"42001", "MID GULF", "25.9", "-89.7", "NDBC", "buoy", "y", "n", "y", "n">>,
        <<"46001", "GULF OF AK", "56.3", "-148.0", "NDBC", "dart", "n", "n", "n", "y">>,
        <<"51001", "NW HAWAII", "24.4", "-162.0", "NDBC", "buoy", "y", "y", "n", "n">>  >>

RowsOfLen(n) == [k \in 1..n |-> SampleRows[((k - 1) % Len(SampleRows)) + 1]]

(***************************************************************************)
(* The terminal before main touches it, and after setup (raw mode,         *)
(* alternate screen, mouse capture, hidden cursor).                        *)
(***************************************************************************)
TermUntouched == [raw |-> FALSE, alt |-> FALSE, mouse |-> FALSE, cursorHidden |-> FALSE]

TermSetUp == [raw |-> TRUE, alt |-> TRUE, mouse |-> TRUE, cursorHidden |-> TRUE]

(***************************************************************************)
(* The effect of each teardown command of the quit arm when it succeeds.   *)
(***************************************************************************)
disable_raw_mode(t) == [t EXCEPT !.raw = FALSE]

LeaveAlternateScreen(t) == [t EXCEPT !.alt = FALSE]

DisableMouseCapture_keepsCapture(t) == t

DisableMouseCapture(t) == [t EXCEPT !.mouse = FALSE]

show_cursor(t) == [t EXCEPT !.cursorHidden = FALSE]

(***************************************************************************)
(* The terminal once main is left by an Err of the ? operator or by a      *)
(* panic: the local `terminal` goes out of scope, and the destructor of    *)
(* tui's Terminal tries to show a cursor that is still hidden.  The cursor *)
(* is then shown, or stays hidden when that write fails too or no          *)
(* destructor runs.                                                        *)
(***************************************************************************)
DropTerminal(t) == {t, show_cursor(t)}

(***************************************************************************)
(* XML elements: a tag name and the attributes present on the element.     *)
(* node.attribute(name) is Some(value) when the attribute is present.      *)
(***************************************************************************)
AttrNames == {"id", "name", "lat", "lon", "pgm", "type", "met", "currents",
              "waterquality", "dart"}

attribute(node, name) ==
    IF name \in DOMAIN node.attrs THEN Some(node.attrs[name]) ELSE None

\* Option::map_or(default, |a| a.to_owned())
map_or(opt, default) == IF opt = None THEN default ELSE opt[1]

(***************************************************************************)
(* ActiveStation::from_node: the station record, or a panic when unwrap()  *)
(* meets a missing lat or lon.                                             *)
(***************************************************************************)
from_node_latDefaulted(node) ==
    IF attribute(node, "lon") = None
    THEN [panic |-> TRUE]
    ELSE [panic |-> FALSE,
          station |->
            [id |-> map_or(attribute(node, "id"), "whew, no id? how'd that happen"),
             name |-> map_or(attribute(node, "name"), "whew, no name? how'd that happen"),
             lat |-> map_or(attribute(node, "lat"), "n"),
             lon |-> attribute(node, "lon")[1],
             program |-> map_or(attribute(node, "pgm"), "whew, no pgm? how'd that happen"),
             kind |-> map_or(attribute(node, "type"), "whew, no kind? how'd that happen"),
             met |-> map_or(attribute(node, "met"), "n"),
             currents |-> map_or(attribute(node, "currents"), "n"),
             water_quality |-> map_or(attribute(node, "waterquality"), "n"),
             dart |-> map_or(attribute(node, "dart"), "n")]]

from_node(node) ==
    IF attribute(node, "lat") = None \/ attribute(node, "lon") = None
    THEN [panic |-> TRUE]
    ELSE [panic |-> FALSE,
          station |->
            [id |-> map_or(attribute(node, "id"), "whew, no id? how'd that happen"),
             name |-> map_or(attribute(node, "name"), "whew, no name? how'd that happen"),
             lat |-> attribute(node, "lat")[1],
             lon |-> attribute(node, "lon")[1],
             program |-> map_or(attribute(node, "pgm"), "whew, no pgm? how'd that happen"),
             kind |-> map_or(attribute(node, "type"), "whew, no kind? how'd that happen"),
             met |-> map_or(attribute(node, "met"), "n"),
             currents |-> map_or(attribute(node, "currents"), "n"),
             water_quality |-> map_or(attribute(node, "waterquality"), "n"),
             dart |-> map_or(attribute(node, "dart"), "n")]]

(***************************************************************************)
(* ActiveStation::to_row: the ten fields in display order.                 *)
(***************************************************************************)
to_row(st) ==
    <<st.id, st.name, st.lat, st.lon, st.program, st.kind, st.met, st.currents,
      st.water_quality, st.dart>>

(***************************************************************************)
(* roxmltree::Document::parse: Err for a body that is not well-formed XML  *)
(* or has no root element; otherwise the document, whose descendants() are *)
(* the root element and the elements below it, in document order.          *)
(***************************************************************************)
Document_parse(b) ==
    IF ~b.wellFormed \/ b.elements = <<>>
    THEN [err |-> TRUE, descendants |-> <<>>]
    ELSE [err |-> FALSE, descendants |-> b.elements]

(***************************************************************************)
(* xml_to_stations: unwrap() of the parsed document, then from_node of     *)
(* every element named "station", in document order; a parse error or a    *)
(* panic in any from_node aborts the whole parse.                          *)
(***************************************************************************)
IsStation(node) == node.tag = "station"

xml_to_stations(b) ==
    LET doc == Document_parse(b)
        ns == SelectSeq(doc.descendants, IsStation)
        rs == [k \in 1..Len(ns) |-> from_node(ns[k])]
    IN  IF doc.err \/ \E k \in 1..Len(ns) : rs[k].panic
        THEN [panic |-> TRUE, stations |-> <<>>]
        ELSE [panic |-> FALSE, stations |-> [k \in 1..Len(ns) |-> rs[k].station]]

(***************************************************************************)
(* The station element that carries the ten fields of a row as its         *)
(* attributes, and the well-formed body made of the root element           *)
(* <stations> with such elements as its children.                          *)
(***************************************************************************)
RootElement == [tag |-> "stations", attrs |-> [created |-> "2020", count |-> "1"]]

StationElement(row) ==
    [tag |-> "station",
     attrs |-> [id |-> row[1], name |-> row[2], lat |-> row[3], lon |-> row[4],
                pgm |-> row[5], type |-> row[6], met |-> row[7],
                currents |-> row[8], waterquality |-> row[9], dart |-> row[10]]]

DocumentOf(rows) ==
    [wellFormed |-> TRUE,
     elements |-> <<RootElement>> \o [k \in 1..Len(rows) |-> StationElement(rows[k])]]

(***************************************************************************)
(* State after StatefulTable::new(rows), with the terminal set up, the     *)
(* pump thread spawned and the render loop about to draw for the first     *)
(* time.                                                                   *)
(***************************************************************************)
Init ==
    /\ items \in {RowsOfLen(n) : n \in 0..MaxRows}
    /\ body = DocumentOf(items)
    /\ stations = xml_to_stations(body).stations
    /\ parsePc = "done"
    /\ selected = None
    /\ overflowChecks \in BOOLEAN
    /\ callLog = <<>>
    /\ selLog = <<None>>
    /\ termQ = <<>>
    /\ delivered = 0
    /\ readLog = <<>>
    /\ pumpPc = "poll"
    /\ sent = <<>>
    /\ nRecv = 0
    /\ actLog = <<>>
    /\ renderPc = "draw"
    /\ result = "none"
    /\ draws = 0
    /\ term = TermSetUp
    /\ recvLog = <<>>
    /\ lastDrawn = <<>>
    /\ polls = 0
    /\ errAt = "none"

\* main is running: it has neither returned nor panicked.  The process, and
\* the pump thread with it, goes on for a while after main has ended; the
\* end of the process is the point from which nothing happens any more.
MainRunning == result = "none"

\* rx, a local of main, is dropped when main returns or unwinds; from then
\* on tx.send returns Err(SendError)
RxDropped == result # "none"

(***************************************************************************)
(* A call of table.next() / table.previous(): the cursor moves and the     *)
(* caller goes on at pcAfter, or the calling (main) thread panics, its     *)
(* locals are dropped and the process ends.                                *)
(***************************************************************************)
ApplyCall_dropsFirstRow(name, r, pcAfter) ==
    /\ callLog' = Append(callLog, name)
    /\ IF r.panic
       THEN /\ selected' = selected
            /\ selLog' = Append(selLog, selected)
            /\ renderPc' = "exit"
            /\ result' = "Panic"
            /\ term' \in DropTerminal(term)
       ELSE /\ selected' = r.sel
            /\ selLog' = Append(selLog, r.sel)
            /\ renderPc' = pcAfter
            /\ result' = result
            /\ term' = term
    /\ items' = IF items = <<>> THEN items ELSE Tail(items)
    /\ UNCHANGED overflowChecks

ApplyCall(name, r, pcAfter) ==
    /\ callLog' = Append(callLog, name)
    /\ IF r.panic
       THEN /\ selected' = selected
            /\ selLog' = Append(selLog, selected)
            /\ renderPc' = "exit"
            /\ result' = "Panic"
            /\ term' \in DropTerminal(term)
       ELSE /\ selected' = r.sel
            /\ selLog' = Append(selLog, r.sel)
            /\ renderPc' = pcAfter
            /\ result' = result
            /\ term' = term
    /\ UNCHANGED <<items, overflowChecks>>

CallNext ==
    /\ result = "none"
    /\ Len(callLog) < MaxCalls
    /\ ApplyCall("next", next(items, selected, overflowChecks), renderPc)
    /\ UNCHANGED <<termQ, delivered, readLog, pumpPc, sent, nRecv, actLog, draws>>
    /\ UNCHANGED parseVars
    /\ UNCHANGED obsVars

CallPrevious ==
    /\ result = "none"
    /\ Len(callLog) < MaxCalls
    /\ ApplyCall("previous", previous(items, selected, overflowChecks), renderPc)
    /\ UNCHANGED <<termQ, delivered, readLog, pumpPc, sent, nRecv, actLog, draws>>
    /\ UNCHANGED parseVars
    /\ UNCHANGED obsVars

NextTable == CallNext \/ CallPrevious

SpecTable == Init /\ [][NextTable]_vars

(***************************************************************************)
(* The parse stage of main on its own: the terminal is not yet set up and  *)
(* the pump thread not yet spawned.  The bodies explored are well-formed   *)
(* or not, and are made of up to MaxElements elements: the <stations>      *)
(* element and station elements that lack up to MaxMissing of the ten      *)
(* attributes.  The body without any element has no root.                  *)
(***************************************************************************)
Without(node, missing) ==
    [tag |-> node.tag,
     attrs |-> [a \in (DOMAIN node.attrs) \ missing |-> node.attrs[a]]]

Elements ==
    {RootElement} \cup
    {Without(StationElement(SampleRows[1]), m) :
        m \in {x \in SUBSET AttrNames : Cardinality(x) <= MaxMissing}}

Documents ==
    [wellFormed : BOOLEAN,
     elements : UNION {[1..n -> Elements] : n \in 0..MaxElements}]

InitParse ==
    /\ body \in Documents
    /\ parsePc = "parse"
    /\ stations = <<>>
    /\ items = <<>>
    /\ selected = None
    /\ overflowChecks \in BOOLEAN
    /\ callLog = <<>>
    /\ selLog = <<None>>
    /\ termQ = <<>>
    /\ delivered = 0
    /\ readLog = <<>>
    /\ pumpPc = "unspawned"
    /\ sent = <<>>
    /\ nRecv = 0
    /\ actLog = <<>>
    /\ renderPc = "start"
    /\ result = "none"
    /\ draws = 0
    /\ term = TermUntouched
    /\ recvLog = <<>>
    /\ lastDrawn = <<>>
    /\ polls = 0
    /\ errAt = "none"

\* let active_stations = xml_to_stations(body);
ParseStations ==
    /\ MainRunning
    /\ parsePc = "parse"
    /\ LET r == xml_to_stations(body) IN
        IF r.panic
        THEN /\ result' = "Panic"
             /\ renderPc' = "exit"
             /\ UNCHANGED <<parsePc, stations>>
        ELSE /\ stations' = r.stations
             /\ parsePc' = "rows"
             /\ UNCHANGED <<result, renderPc>>
    /\ UNCHANGED <<body, nRecv, actLog, draws, term>>
    /\ UNCHANGED tableVars
    /\ UNCHANGED pumpVars
    /\ UNCHANGED obsVars

\* let rows = active_stations.iter().map(|a| a.to_row()).collect();
BuildRows ==
    /\ MainRunning
    /\ parsePc = "rows"
    /\ items' = [k \in 1..Len(stations) |-> to_row(stations[k])]
    /\ parsePc' = "done"
    /\ UNCHANGED <<body, stations, selected, overflowChecks, callLog, selLog>>
    /\ UNCHANGED pumpVars
    /\ UNCHANGED renderVars
    /\ UNCHANGED obsVars

NextParse == ParseStations \/ BuildRows

SpecParse == InitParse /\ [][NextParse]_vars

(***************************************************************************)
(* Terminal events (crossterm::event::Event) and channel messages          *)
(* (Event<KeyEvent, MouseEvent>).  "Enter" stands for any key other than   *)
(* q, Down and Up; "Click" for any mouse action other than a scroll;       *)
(* Resize for any terminal event that is neither key nor mouse.            *)
(***************************************************************************)
KeyCodes == {"q", "Down", "Up", "Enter"}
MouseKinds == {"ScrollDown", "ScrollUp", "Click"}
KeyEv(c) == <<"Key", c>>
MouseEv(m) == <<"Mouse", m>>
ResizeEv == <<"Resize", "">>
CEvents == {KeyEv(c) : c \in KeyCodes} \cup {MouseEv(m) : m \in MouseKinds} \cup {ResizeEv}

IsKey(e) == e[1] = "Key"
IsMouse(e) == e[1] = "Mouse"

(***************************************************************************)
(* The terminal delivers an event to the process.                          *)
(***************************************************************************)
TermDeliver ==
    /\ delivered < MaxEvents
    /\ \E e \in CEvents : termQ' = Append(termQ, e)
    /\ delivered' = delivered + 1
    /\ UNCHANGED <<readLog, pumpPc, sent>>
    /\ UNCHANGED tableVars
    /\ UNCHANGED renderVars
    /\ UNCHANGED parseVars
    /\ UNCHANGED obsVars

(***************************************************************************)
(* Input pump thread.                                                      *)
(***************************************************************************)
\* event::poll(200ms) returns Ok(false): nothing is done, the loop repeats
PumpPollTimeout_sendTick ==
    /\ pumpPc = "poll"
    /\ termQ = <<>>
    /\ Len(sent) < MaxEvents
    /\ sent' = Append(sent, <<"Tick", "">>)
    /\ UNCHANGED <<termQ, delivered, readLog, pumpPc>>
    /\ UNCHANGED tableVars
    /\ UNCHANGED renderVars
    /\ UNCHANGED parseVars
    /\ UNCHANGED obsVars

PumpPollTimeout ==
    /\ pumpPc = "poll"
    /\ termQ = <<>>
    /\ UNCHANGED <<termQ, delivered, readLog, pumpPc, sent>>
    /\ UNCHANGED tableVars
    /\ UNCHANGED renderVars
    /\ UNCHANGED parseVars
    /\ UNCHANGED obsVars

\* event::poll(200ms) returns Ok(true)
PumpPollReady ==
    /\ pumpPc = "poll"
    /\ termQ # <<>>
    /\ pumpPc' = "read1"
    /\ polls' = polls + 1
    /\ UNCHANGED <<termQ, delivered, readLog, sent>>
    /\ UNCHANGED tableVars
    /\ UNCHANGED renderVars
    /\ UNCHANGED parseVars
    /\ UNCHANGED <<recvLog, lastDrawn, errAt>>

\* first event::read(): a key event is logged and sent, and unwrap() panics
\* on the SendError when rx is gone; anything else falls through to the
\* else-if, which reads again
PumpRead1_fallsThrough ==
    /\ pumpPc = "read1"
    /\ termQ # <<>>
    /\ LET e == Head(termQ) IN
        /\ termQ' = Tail(termQ)
        /\ readLog' = Append(readLog, e)
        /\ IF IsKey(e)
           THEN /\ sent' = IF RxDropped THEN sent ELSE Append(sent, e)
                /\ pumpPc' = IF RxDropped THEN "panicked" ELSE "read2"
           ELSE /\ sent' = sent
                /\ pumpPc' = "read2"
    /\ UNCHANGED delivered
    /\ UNCHANGED tableVars
    /\ UNCHANGED renderVars
    /\ UNCHANGED parseVars
    /\ UNCHANGED obsVars

PumpRead1 ==
    /\ pumpPc = "read1"
    /\ termQ # <<>>
    /\ LET e == Head(termQ) IN
        /\ termQ' = Tail(termQ)
        /\ readLog' = Append(readLog, e)
        /\ IF IsKey(e)
           THEN /\ sent' = IF RxDropped THEN sent ELSE Append(sent, e)
                /\ pumpPc' = IF RxDropped THEN "panicked" ELSE "poll"
           ELSE /\ sent' = sent
                /\ pumpPc' = "read2"
    /\ UNCHANGED delivered
    /\ UNCHANGED tableVars
    /\ UNCHANGED renderVars
    /\ UNCHANGED parseVars
    /\ UNCHANGED obsVars

\* second event::read(): blocks for the next event; a mouse event is logged
\* and sent, and unwrap() panics on the SendError when rx is gone; anything
\* else is discarded
PumpRead2 ==
    /\ pumpPc = "read2"
    /\ termQ # <<>>
    /\ LET e == Head(termQ) IN
        /\ termQ' = Tail(termQ)
        /\ readLog' = Append(readLog, e)
        /\ sent' = IF IsMouse(e) /\ ~RxDropped THEN Append(sent, e) ELSE sent
        /\ pumpPc' = IF IsMouse(e) /\ RxDropped THEN "panicked" ELSE "poll"
    /\ UNCHANGED delivered
    /\ UNCHANGED tableVars
    /\ UNCHANGED renderVars
    /\ UNCHANGED parseVars
    /\ UNCHANGED obsVars

\* poll() or read() returns Err (or evt.log cannot be created): unwrap()
\* panics, the thread unwinds and tx is dropped
PumpPanic ==
    /\ pumpPc \in {"poll", "read1", "read2"}
    /\ pumpPc' = "panicked"
    /\ UNCHANGED <<termQ, delivered, readLog, sent>>
    /\ UNCHANGED tableVars
    /\ UNCHANGED renderVars
    /\ UNCHANGED parseVars
    /\ UNCHANGED obsVars

\* write_all to evt.log returns Err after a key (first read) or mouse
\* (second read) event was read: the event is lost with the thread
PumpLogFail ==
    /\ termQ # <<>>
    /\ \/ pumpPc = "read1" /\ IsKey(Head(termQ))
       \/ pumpPc = "read2" /\ IsMouse(Head(termQ))
    /\ termQ' = Tail(termQ)
    /\ readLog' = Append(readLog, Head(termQ))
    /\ pumpPc' = "panicked"
    /\ UNCHANGED <<delivered, sent>>
    /\ UNCHANGED tableVars
    /\ UNCHANGED renderVars
    /\ UNCHANGED parseVars
    /\ UNCHANGED obsVars

(***************************************************************************)
(* Render loop (main thread).                                              *)
(***************************************************************************)
\* terminal.draw(..)?: the table is rendered with the current selection,
\* or the terminal write fails and the ? operator returns the error from
\* main, dropping the terminal
Draw ==
    /\ MainRunning
    /\ renderPc = "draw"
    /\ \/ /\ draws' = draws + 1
          /\ lastDrawn' = <<selected>>
          /\ renderPc' = "recv"
          /\ UNCHANGED <<result, errAt, term>>
       \/ /\ renderPc' = "exit"
          /\ result' = "Err"
          /\ errAt' = "draw"
          /\ term' \in DropTerminal(term)
          /\ UNCHANGED <<draws, lastDrawn>>
    /\ UNCHANGED <<nRecv, actLog>>
    /\ UNCHANGED tableVars
    /\ UNCHANGED pumpVars
    /\ UNCHANGED parseVars
    /\ UNCHANGED <<recvLog, polls>>

\* the match on the received message: which arm is taken
Command_enterQuits(ev) ==
    IF IsKey(ev) THEN
        CASE ev[2] = "q" -> "quit"
          [] ev[2] = "Enter" -> "quit"
          [] ev[2] = "Down" -> "next"
          [] ev[2] = "Up" -> "previous"
          [] OTHER -> "ignore"
    ELSE IF IsMouse(ev) THEN
        CASE ev[2] = "ScrollDown" -> "previous"
          [] ev[2] = "ScrollUp" -> "next"
          [] OTHER -> "ignore"
    ELSE "ignore"

Command_anyKeyAdvances(ev) ==
    IF IsKey(ev) THEN
        CASE ev[2] = "q" -> "quit"
          [] ev[2] = "Up" -> "previous"
          [] OTHER -> "next"
    ELSE IF IsMouse(ev) THEN
        CASE ev[2] = "ScrollDown" -> "previous"
          [] ev[2] = "ScrollUp" -> "next"
          [] OTHER -> "ignore"
    ELSE "ignore"

Command(ev) ==
    IF IsKey(ev) THEN
        CASE ev[2] = "q" -> "quit"
          [] ev[2] = "Down" -> "next"
          [] ev[2] = "Up" -> "previous"
          [] OTHER -> "ignore"
    ELSE IF IsMouse(ev) THEN
        CASE ev[2] = "ScrollDown" -> "previous"
          [] ev[2] = "ScrollUp" -> "next"
          [] OTHER -> "ignore"
    ELSE "ignore"

\* the three fallible calls of the quit arm, in order
QuitCalls == {"disable_raw_mode", "execute", "show_cursor"}

\* the terminal when the quit arm is left with f the failing call ("none":
\* all three succeeded).  The calls before f have taken effect and those
\* after it are not made; the failing call itself changes nothing, except
\* that execute! may fail at its second command with the first one done.
QuitOutcomes(t, f) ==
    CASE f = "disable_raw_mode" -> {t}
      [] f = "execute" ->
            {disable_raw_mode(t), LeaveAlternateScreen(disable_raw_mode(t))}
      [] f = "show_cursor" ->
            {DisableMouseCapture(LeaveAlternateScreen(disable_raw_mode(t)))}
      [] OTHER ->
            {show_cursor(DisableMouseCapture(LeaveAlternateScreen(disable_raw_mode(t))))}

\* the quit arm: the three calls succeed and the loop is left by break (main
\* returns Ok), or one of them returns Err and the ? operator returns it from
\* main; either way the terminal is dropped as main returns
Quit ==
    \E f \in {"none"} \cup QuitCalls :
        /\ \E t \in QuitOutcomes(term, f) : term' \in DropTerminal(t)
        /\ renderPc' = "exit"
        /\ result' = IF f = "none" THEN "Ok" ELSE "Err"
        /\ errAt' = f

\* the arms of the match; after a message that no arm acts on the loop goes
\* on at pcIgnored
Dispatch(cmd, pcIgnored) ==
    CASE cmd = "quit" ->
            /\ Quit
            /\ UNCHANGED tableVars
      [] cmd = "next" ->
            /\ ApplyCall("next", next(items, selected, overflowChecks), "draw")
            /\ UNCHANGED errAt
      [] cmd = "previous" ->
            /\ ApplyCall("previous", previous(items, selected, overflowChecks), "draw")
            /\ UNCHANGED errAt
      [] OTHER ->
            /\ renderPc' = pcIgnored
            /\ UNCHANGED <<result, term, errAt>>
            /\ UNCHANGED tableVars

\* rx.recv() returns a message and the match dispatches it
Recv_takesNewest ==
    /\ MainRunning
    /\ renderPc = "recv"
    /\ nRecv < Len(sent)
    /\ LET ev == sent[Len(sent)]
           cmd == Command(ev)
       IN  /\ nRecv' = Len(sent)
           /\ recvLog' = Append(recvLog, ev)
           /\ actLog' = Append(actLog, cmd)
           /\ Dispatch(cmd, "draw")
    /\ draws' = draws
    /\ UNCHANGED pumpVars
    /\ UNCHANGED parseVars
    /\ UNCHANGED <<lastDrawn, polls>>

Recv_noRedrawOnIgnore ==
    /\ MainRunning
    /\ renderPc = "recv"
    /\ nRecv < Len(sent)
    /\ LET ev == sent[nRecv + 1]
           cmd == Command(ev)
       IN  /\ nRecv' = nRecv + 1
           /\ recvLog' = Append(recvLog, ev)
           /\ actLog' = Append(actLog, cmd)
           /\ Dispatch(cmd, "recv")
    /\ draws' = draws
    /\ UNCHANGED pumpVars
    /\ UNCHANGED parseVars
    /\ UNCHANGED <<lastDrawn, polls>>

Recv ==
    /\ MainRunning
    /\ renderPc = "recv"
    /\ nRecv < Len(sent)
    /\ LET ev == sent[nRecv + 1]
           cmd == Command(ev)
       IN  /\ nRecv' = nRecv + 1
           /\ recvLog' = Append(recvLog, ev)
           /\ actLog' = Append(actLog, cmd)
           /\ Dispatch(cmd, "draw")
    /\ draws' = draws
    /\ UNCHANGED pumpVars
    /\ UNCHANGED parseVars
    /\ UNCHANGED <<lastDrawn, polls>>

\* rx.recv() returns Err: the channel is empty and the sender was dropped;
\* the ? operator returns the error from main, dropping the terminal
RecvDisconnected_blocksForever ==
    /\ FALSE
    /\ UNCHANGED vars

RecvDisconnected ==
    /\ MainRunning
    /\ renderPc = "recv"
    /\ nRecv = Len(sent)
    /\ pumpPc = "panicked"
    /\ renderPc' = "exit"
    /\ result' = "Err"
    /\ errAt' = "recv"
    /\ term' \in DropTerminal(term)
    /\ UNCHANGED <<nRecv, actLog, draws>>
    /\ UNCHANGED tableVars
    /\ UNCHANGED pumpVars
    /\ UNCHANGED parseVars
    /\ UNCHANGED <<recvLog, lastDrawn, polls>>

Next ==
    \/ TermDeliver
    \/ PumpPollTimeout
    \/ PumpPollReady
    \/ PumpRead1
    \/ PumpRead2
    \/ PumpPanic
    \/ PumpLogFail
    \/ Draw
    \/ Recv
    \/ RecvDisconnected

Spec == Init /\ [][Next]_vars

(***************************************************************************)
(* The running program with its scheduling: the main thread is never       *)
(* starved, so a draw, a receive of a waiting message, or the failure of   *)
(* rx.recv() on a disconnected channel, eventually happens when it can.    *)
(* Nothing is assumed of the terminal or of the pump thread.  Runs are     *)
(* explored up to MaxLiveEvents terminal events.                           *)
(***************************************************************************)
NextLive == Next /\ delivered' <= MaxLiveEvents

SpecLive ==
    /\ Init
    /\ [][NextLive]_vars
    /\ WF_vars(Draw)
    /\ WF_vars(Recv)
    /\ WF_vars(RecvDisconnected)

(***************************************************************************)
(* Properties of the StatefulTable, checked under SpecTable.               *)
(*                                                                         *)
(* selLog[k] is the cursor before the k-th call and selLog[k + 1] the      *)
(* cursor after it.                                                        *)
(***************************************************************************)
NumRows == Len(items)
Calls == 1..Len(callLog)

\* C1: with at least one row, next() selects index 0 when nothing is
\* selected and (current + 1) mod len(rows) otherwise.
ThmC1_NextIsSuccessorModLen ==
    NumRows > 0 =>
        \A k \in Calls :
            callLog[k] = "next" =>
                /\ result # "Panic"
                /\ selLog[k + 1] = IF selLog[k] = None
                                   THEN Some(0)
                                   ELSE Some((selLog[k][1] + 1) % NumRows)

\* next() was called on the last row of a table of several rows, and
\* also with no selection
WitC1_NextAtLastRow ==
    /\ NumRows >= 2
    /\ \E k \in Calls : callLog[k] = "next" /\ selLog[k] = Some(NumRows - 1)
    /\ \E k \in Calls : callLog[k] = "next" /\ selLog[k] = None

\* C2: with at least one row, previous() selects index 0 when nothing is
\* selected and (current - 1 + len(rows)) mod len(rows) otherwise.
ThmC2_PreviousIsPredecessorModLen ==
    NumRows > 0 =>
        \A k \in Calls :
            callLog[k] = "previous" =>
                /\ result # "Panic"
                /\ selLog[k + 1] = IF selLog[k] = None
                                   THEN Some(0)
                                   ELSE Some((selLog[k][1] - 1 + NumRows) % NumRows)

\* previous() was called on the first row of a table of several rows, and
\* also with no selection
WitC2_PreviousAtFirstRow ==
    /\ NumRows >= 2
    /\ \E k \in Calls : callLog[k] = "previous" /\ selLog[k] = Some(0)
    /\ \E k \in Calls : callLog[k] = "previous" /\ selLog[k] = None

\* C3: for any rows (none included) and after any calls of next() and
\* previous(), a selected index is strictly less than the number of rows.
ClaimC3_SelectedBelowLen ==
    selected # None => selected[1] < NumRows

\* C6 as stated: with N >= 1 rows, N calls of next() from the no-selection
\* state bring the cursor back to the index visited first.
ClaimC6_NNextsReturnToFirst ==
    (NumRows > 0 /\ callLog = [k \in 1..NumRows |-> "next"]) =>
        selected = selLog[2]

\* C6 as amended: with N >= 1 rows, N + 1 calls of next() from the
\* no-selection state (N calls after the one that made the first selection)
\* bring the cursor back to the index visited first, and the N calls before
\* visit N different rows.
ThmC6_NPlusOneNextsReturnToFirst ==
    (NumRows > 0 /\ callLog = [k \in 1..(NumRows + 1) |-> "next"]) =>
        /\ selected = selLog[2]
        /\ \A j, k \in 2..(NumRows + 1) : j # k => selLog[j] # selLog[k]

\* N + 1 calls of next() were made on a table of N = MaxRows rows
WitC6_FullCycle ==
    /\ NumRows >= 3
    /\ callLog = [k \in 1..(NumRows + 1) |-> "next"]
    /\ result = "none"

\* C7: with at least one row and a row selected, next() followed by
\* previous() leaves the cursor where it was; previous() on index 0 selects
\* the last row.
ThmC7_PreviousUndoesNext ==
    NumRows > 0 =>
        /\ \A k \in Calls :
            (/\ k + 1 \in Calls
             /\ callLog[k] = "next"
             /\ callLog[k + 1] = "previous"
             /\ selLog[k] # None) => selLog[k + 2] = selLog[k]
        /\ \A k \in Calls :
            (callLog[k] = "previous" /\ selLog[k] = Some(0)) =>
                selLog[k + 1] = Some(NumRows - 1)

\* next() then previous() were called across the wrap boundary (from the
\* last row of several) and previous() was called on row 0
WitC7_AcrossWrap ==
    /\ NumRows >= 2
    /\ \E k \in Calls :
        /\ k + 1 \in Calls
        /\ callLog[k] = "next"
        /\ callLog[k + 1] = "previous"
        /\ selLog[k] = Some(NumRows - 1)
    /\ \E k \in Calls : callLog[k] = "previous" /\ selLog[k] = Some(0)

\* C8: with no rows, next() and previous() never crash the process.
ClaimC8_NoCrashOnEmpty ==
    NumRows = 0 => result # "Panic"

(***************************************************************************)
(* Properties of the running program, checked under Spec.                  *)
(*                                                                         *)
(* sent[k] is the k-th message put on the channel; the render loop has     *)
(* received sent[1 .. nRecv], and actLog[k] is the match arm taken for     *)
(* sent[k].                                                                *)
(***************************************************************************)
Received == 1..nRecv
IsKeyOrMouse(e) == IsKey(e) \/ IsMouse(e)

\* C4: in the render loop the Down key and mouse scroll-down call next(),
\* the Up key and mouse scroll-up call previous(), and 'q' quits.
ClaimC4_CommandMapping ==
    \A k \in Received :
        /\ sent[k] \in {KeyEv("Down"), MouseEv("ScrollDown")} => actLog[k] = "next"
        /\ sent[k] \in {KeyEv("Up"), MouseEv("ScrollUp")} => actLog[k] = "previous"
        /\ sent[k] = KeyEv("q") => actLog[k] = "quit"

\* C5: every key or mouse event the pump has read from the terminal has
\* been sent on the channel once the pump is back at the top of its loop.
ClaimC5_NoKeyOrMouseEventDropped ==
    pumpPc = "poll" => SelectSeq(readLog, IsKeyOrMouse) = sent

\* C9 as stated: receiving the key 'q' restores the terminal (raw mode off,
\* alternate screen left, mouse capture off, cursor shown) and ends main
\* with Ok; from then on no message is received and the cursor does not
\* change.
ClaimC9_QuitRestoresAndSucceeds ==
    [][ /\ (nRecv' = nRecv + 1 /\ sent[nRecv'] = KeyEv("q")) =>
            /\ term' = [raw |-> FALSE, alt |-> FALSE, mouse |-> FALSE,
                        cursorHidden |-> FALSE]
            /\ renderPc' = "exit"
            /\ result' = "Ok"
            /\ selected' = selected
        /\ result = "Ok" =>
            /\ nRecv' = nRecv
            /\ selected' = selected
            /\ draws' = draws
            /\ result' = result
            /\ term' = term
      ]_vars

\* C9 as amended: receiving the key 'q' always halts the loop with the
\* cursor of the table untouched.  When the three teardown calls succeed
\* the terminal is restored (raw mode off, alternate screen left, mouse
\* capture off, cursor shown) and main ends with Ok.  When one of them
\* fails main ends with that error and the terminal may be left dirty; only
\* the calls that succeeded before it are sure to have taken effect (raw
\* mode is off unless disable_raw_mode failed; the alternate screen is left
\* and mouse capture off when show_cursor is the call that failed).  Once
\* main has ended no message is received, nothing is drawn and neither the
\* cursor nor the terminal changes.
ThmC9_QuitHaltsRestoringUnlessIoError ==
    [][ /\ (nRecv' = nRecv + 1 /\ sent[nRecv'] = KeyEv("q")) =>
            /\ renderPc' = "exit"
            /\ selected' = selected
            /\ result' \in {"Ok", "Err"}
            /\ result' = "Ok" =>
                term' = [raw |-> FALSE, alt |-> FALSE, mouse |-> FALSE,
                         cursorHidden |-> FALSE]
            /\ result' = "Err" =>
                /\ errAt' \in {"disable_raw_mode", "execute", "show_cursor"}
                /\ errAt' # "disable_raw_mode" => ~term'.raw
                /\ errAt' = "show_cursor" => ~term'.alt /\ ~term'.mouse
        /\ result # "none" =>
            /\ nRecv' = nRecv
            /\ selected' = selected
            /\ draws' = draws
            /\ result' = result
            /\ term' = term
      ]_vars

\* main has returned Ok after 'q' was received with a row selected, while
\* another message was still waiting in the channel
WitC9_QuitAfterNavigation ==
    /\ result = "Ok"
    /\ errAt = "none"
    /\ renderPc = "exit"
    /\ sent[nRecv] = KeyEv("q")
    /\ selected # None
    /\ nRecv < Len(sent)
    /\ term.raw = FALSE

\* C10 as stated: while the pump has forwarded nothing, the render loop
\* draws exactly once and then stays blocked in rx.recv(); a poll timeout
\* puts nothing on the channel.
ClaimC10_OneDrawThenBlocked ==
    /\ Len(sent) <= Len(SelectSeq(readLog, IsKeyOrMouse))
    /\ sent = <<>> =>
        \/ renderPc = "draw" /\ draws = 0
        \/ renderPc = "recv" /\ draws = 1

\* C10 as amended: a poll timeout puts nothing on the channel and every
\* draw after the first follows a received message; while the pump has
\* forwarded nothing, the render loop draws exactly once and then stays
\* blocked in rx.recv(), unless the first draw fails on its terminal write
\* (main returns the error with nothing drawn) or the pump thread has died
\* (poll, read or log error), in which case rx.recv() fails and main returns
\* the error without drawing again.
ThmC10_NoDrawWithoutMessage ==
    /\ Len(sent) <= Len(SelectSeq(readLog, IsKeyOrMouse))
    /\ \A k \in 1..Len(sent) : IsKeyOrMouse(sent[k])
    /\ draws <= nRecv + 1
    /\ sent = <<>> =>
        \/ renderPc = "draw" /\ draws = 0 /\ result = "none"
        \/ renderPc = "recv" /\ draws = 1 /\ result = "none"
        \/ renderPc = "exit" /\ draws = 0 /\ result = "Err" /\ errAt = "draw"
        \/ /\ renderPc = "exit" /\ draws = 1 /\ result = "Err" /\ errAt = "recv"
           /\ pumpPc = "panicked"

\* the pump has read and discarded two events and is back at poll with
\* nothing pending, so every further poll times out; nothing was forwarded,
\* and the render loop sits in rx.recv() after its first draw
WitC10_IdlePumpAndBlocked ==
    /\ pumpPc = "poll"
    /\ termQ = <<>>
    /\ Len(readLog) = 2
    /\ sent = <<>>
    /\ renderPc = "recv"
    /\ draws = 1

(***************************************************************************)
(* Properties of the parse stage, checked under SpecParse.                 *)
(***************************************************************************)
StationNodes == SelectSeq(body.elements, IsStation)
Lacks(node, missing) == AttrNames \ DOMAIN node.attrs = missing

\* C11: a document with a station element that has no lat attribute makes
\* the parse fail fatally, with no rows produced; a station element that
\* lacks only met yields a row whose 7th field is "n" and whose other fields
\* are the element's attribute values.
ThmC11_LatRequiredMetOptional ==
    /\ (parsePc # "parse" \/ result # "none") =>
        ((\E k \in 1..Len(StationNodes) : "lat" \notin DOMAIN StationNodes[k].attrs) =>
            /\ result = "Panic"
            /\ parsePc = "parse"
            /\ stations = <<>>
            /\ items = <<>>)
    /\ parsePc = "done" =>
        /\ Len(items) = Len(StationNodes)
        /\ \A k \in 1..Len(StationNodes) :
            Lacks(StationNodes[k], {"met"}) =>
                LET a == StationNodes[k].attrs IN
                items[k] = <<a["id"], a["name"], a["lat"], a["lon"], a["pgm"],
                             a["type"], "n", a["currents"], a["waterquality"],
                             a["dart"]>>

\* rows were built from a document whose second station element lacks only
\* met, after a complete one
WitC11_RowWithoutMet ==
    /\ parsePc = "done"
    /\ Len(StationNodes) = 2
    /\ Lacks(StationNodes[1], {})
    /\ Lacks(StationNodes[2], {"met"})
    /\ items[2][7] = "n"
    /\ items[1][7] = "y"

\* C12 as stated: the render loop has halted only if the key 'q' was
\* received.
ClaimC12_OnlyQuitExits ==
    renderPc = "exit" => \E k \in Received : recvLog[k] = KeyEv("q")

\* C12 as amended: the render loop has halted only if the key 'q' was the
\* last message received (main returned Ok, or the error of a teardown call
\* of the quit arm), or a draw failed on its terminal write (main returned
\* Err), or rx.recv() failed on the empty channel because the pump thread
\* had died (main returned Err), or next() / previous() panicked on a table
\* without rows (C8); it never halts on a timeout or on any other message.
ThmC12_ExitsOnlyByQuitErrorOrPanic ==
    /\ renderPc = "exit" <=> result # "none"
    /\ result = "Ok" => nRecv > 0 /\ recvLog[nRecv] = KeyEv("q") /\ errAt = "none"
    /\ result = "Err" =>
        \/ errAt \in QuitCalls /\ nRecv > 0 /\ recvLog[nRecv] = KeyEv("q")
        \/ errAt = "draw" /\ draws = nRecv
        \/ errAt = "recv" /\ pumpPc = "panicked" /\ nRecv = Len(sent)
    /\ result = "Panic" =>
        /\ NumRows = 0
        /\ nRecv > 0
        /\ Command(recvLog[nRecv]) \in {"next", "previous"}
        /\ errAt = "none"
    /\ result = "none" => errAt = "none"
    /\ \A k \in Received :
        recvLog[k] = KeyEv("q") =>
            /\ k = nRecv
            /\ result \in {"Ok", "Err"}
            /\ errAt \in {"none"} \cup QuitCalls

\* main returned Ok on 'q' after two other messages, one of them ignored
WitC12_QuitIsThirdMessage ==
    /\ result = "Ok"
    /\ errAt = "none"
    /\ nRecv = 3
    /\ recvLog[3] = KeyEv("q")
    /\ recvLog[1] = KeyEv("Enter")

\* C13: once the input pump has died on a poll, read or log error, the
\* process ends (main returns or panics): the render loop neither runs on
\* nor stays blocked for ever.
ThmC13_PumpErrorEndsProcess ==
    (pumpPc = "panicked") ~> (result # "none" /\ renderPc = "exit")

\* the pump died while a message was still waiting in the channel, and main
\* has returned the receive error after consuming it
WitC13_ErrAfterDrainingChannel ==
    /\ pumpPc = "panicked"
    /\ result = "Err"
    /\ errAt = "recv"
    /\ nRecv >= 1
    /\ nRecv = Len(sent)
    /\ draws = nRecv + 1

\* C14: the render loop receives the messages the pump sent in the order
\* they were sent and each at most once; and as long as the loop is running,
\* every message sent is eventually received.
ThmC14_ChannelFifoExactlyOnce ==
    /\ [](/\ nRecv <= Len(sent)
          /\ Len(recvLog) = nRecv
          /\ recvLog = SubSeq(sent, 1, nRecv))
    /\ \A k \in 1..MaxLiveEvents :
        (Len(sent) >= k) ~> (nRecv >= k \/ result # "none")

\* two different messages were sent and both have been received, with the
\* loop still running
WitC14_TwoMessagesInOrder ==
    /\ Len(sent) = 2
    /\ sent[1] # sent[2]
    /\ nRecv = 2
    /\ recvLog = sent
    /\ result = "none"

\* C15: a received message other than 'q', Down, Up, scroll-down and
\* scroll-up is ignored: cursor and rows stay as they are and the render
\* loop goes on running.
ThmC15_OtherInputIgnored ==
    [][ (/\ nRecv' = nRecv + 1
         /\ recvLog'[nRecv'] \notin {KeyEv("q"), KeyEv("Down"), KeyEv("Up"),
                                     MouseEv("ScrollDown"), MouseEv("ScrollUp")}) =>
            /\ selected' = selected
            /\ items' = items
            /\ renderPc' = "draw"
            /\ result' = "none"
            /\ term' = term
      ]_vars

\* with row 0 selected, a mouse click was received and the loop is about to
\* draw again
WitC15_ClickIgnored ==
    /\ recvLog = <<KeyEv("Down"), MouseEv("Click")>>
    /\ selected = Some(0)
    /\ renderPc = "draw"
    /\ result = "none"

\* C16: next() and previous() change only the cursor: the rows (their
\* number, order and fields) are the same after every call.
ThmC16_CallsKeepRows ==
    [][callLog' # callLog => items' = items]_vars

\* next() and previous() were both called, at least three calls in all, on
\* a table of several rows
WitC16_RowsAfterCalls ==
    /\ NumRows >= 2
    /\ Len(callLog) >= 3
    /\ \E k \in Calls : callLog[k] = "next"
    /\ \E k \in Calls : callLog[k] = "previous"
    /\ items = RowsOfLen(NumRows)

\* C17: whenever the render loop is at rx.recv(), it has drawn once more
\* than it has received messages, and its last draw showed the current
\* cursor.
ThmC17_DrawBeforeEveryRecv ==
    renderPc = "recv" =>
        /\ draws = nRecv + 1
        /\ lastDrawn = <<selected>>

\* the loop waits in rx.recv() after two messages, the second of which moved
\* the cursor to row 1
WitC17_ThirdDrawShowsRowOne ==
    /\ renderPc = "recv"
    /\ nRecv = 2
    /\ draws = 3
    /\ selected = Some(1)
    /\ selLog[Len(selLog) - 1] = Some(0)
    /\ lastDrawn = <<Some(1)>>

\* C18 (implicit): after the first call of next() or previous() the cursor
\* always has a selection; it never returns to the no-selection state.
ThmC18_SelectionNeverCleared ==
    /\ callLog # <<>> => selected # None
    /\ \A k \in 2..Len(selLog) : selLog[k] # None
    /\ selected = selLog[Len(selLog)]

\* previous() was called on row 0 and next() on the last row of a table of
\* several rows, within at least four calls
WitC18_WrappedBothWays ==
    /\ NumRows >= 2
    /\ Len(callLog) >= 4
    /\ \E k \in Calls : callLog[k] = "previous" /\ selLog[k] = Some(0)
    /\ \E k \in Calls : callLog[k] = "next" /\ selLog[k] = Some(NumRows - 1)
    /\ selected # None

\* C19 (implicit): when the terminal has delivered only key events, the
\* running pump has forwarded every key event it read, once and in arrival
\* order, with one event::read() per successful poll (the second read is
\* never reached).
OnlyKeysDelivered ==
    /\ \A k \in 1..Len(readLog) : IsKey(readLog[k])
    /\ \A k \in 1..Len(termQ) : IsKey(termQ[k])

=============================================================================
